---- MODULE Spec2Model ----
(***************************************************************************)
(* A model of gpt_oss/tools/python_stateful.py: StatefulPythonExecutor, a  *)
(* REPL-like executor that keeps one namespace across execute() calls and  *)
(* returns a textual report per call.                                      *)
(*                                                                         *)
(* Python source text is modelled as a sequence of tokens (whitespace,     *)
(* comment, unparseable garbage, or one simple statement per token), the   *)
(* namespace as a function from names to values, and every text the        *)
(* program produces (captured output, tracebacks, the report) as a         *)
(* sequence of string chunks.                                              *)
(***************************************************************************)
EXTENDS Integers, Sequences, FiniteSets, TLC

\* ------------------------------------------------------------------ bounds

\* Longest fragment drawn as input, in statements.
MaxLen == 2

\* Number of execute calls in one sequential run.
MaxCalls == 4

\* ------------------------------------------------------------------ values

NoneV == [t |-> "NoneType"]
IntV(i) == [t |-> "int", v |-> i]
StrV(s) == [t |-> "str", s |-> s]
\* An instance of a user class whose __repr__ raises.
BadReprV == [t |-> "BadRepr"]
\* The builtins module object bound to __builtins__.
BuiltinsV == [t |-> "module"]

\* ------------------------------------------------------------------- texts

NL == "\n"
Whitespace == {" ", NL}

RECURSIVE rstrip(_)
\* str.rstrip(): drop trailing whitespace, keep everything before it.
rstrip(s) ==
  IF s = <<>> THEN s
  ELSE IF s[Len(s)] \in Whitespace THEN rstrip(SubSeq(s, 1, Len(s) - 1))
  ELSE s

RECURSIVE join(_)
\* "\n".join(parts)
join(parts) ==
  IF parts = <<>> THEN <<>>
  ELSE IF Len(parts) = 1 THEN parts[1]
  ELSE parts[1] \o <<NL>> \o join(Tail(parts))

\* Mutant of Label: the label ends its line even when nothing follows.
LabelLine(n) == <<"[Execution #", ToString(n), "]", NL>>

\* f"[Execution #{n}]"
Label(n) == <<"[Execution #", ToString(n), "]">>

\* Whether repr(v) / str(v) raises.
ReprRaises(v) == v.t = "BadRepr"

\* repr(v), for a value whose __repr__ returns.
repr(v) ==
  CASE v.t = "NoneType" -> <<"None">>
    [] v.t = "int" -> <<ToString(v.v)>>
    [] v.t = "str" -> <<"'", v.s, "'">>
    [] OTHER -> <<"<module>">>

\* str(v), as print() renders its argument.
str(v) ==
  CASE v.t = "str" -> <<v.s>>
    [] OTHER -> repr(v)

\* traceback.format_exc() for an exception of class exc.
format_exc(exc) == <<"Traceback (most recent call last):", NL, exc, NL>>

\* ------------------------------------------------------------- source text

_RESULT_SLOT == "_REPL_LAST_EXPR_VALUE_DO_NOT_USE_"

Space == [k |-> "ws", c |-> " "]
Newline == [k |-> "ws", c |-> NL]
Comment == [k |-> "comment"]
\* Text that ast.parse rejects.
Garbage == [k |-> "garbage"]

\* Expressions.
Const(v) == [k |-> "Const", v |-> v]
Name(id) == [k |-> "Name", id |-> id]
\* id + 1
AddOne(id) == [k |-> "AddOne", id |-> id]
\* print(*args, file=sys.<file>)
Call_print(args, file) == [k |-> "print", args |-> args, file |-> file]

\* Statements.
Assign(id, e) == [k |-> "Assign", id |-> id, e |-> e]
Del(id) == [k |-> "Del", id |-> id]
Expr(e) == [k |-> "Expr", e |-> e]
\* if e: pass
If(e) == [k |-> "If", e |-> e]
Raise(exc) == [k |-> "Raise", exc |-> exc]
\* A top-level return: parses, and compile() rejects it.
Return == [k |-> "Return"]

IsSpace(tok) == tok.k = "ws"
IsStmt(tok) == tok.k \in {"Assign", "Del", "Expr", "If", "Raise", "Return"}

RECURSIVE lstripCode(_)
lstripCode(code) ==
  IF code = <<>> THEN code
  ELSE IF IsSpace(code[1]) THEN lstripCode(Tail(code))
  ELSE code

RECURSIVE rstripCode(_)
rstripCode(code) ==
  IF code = <<>> THEN code
  ELSE IF IsSpace(code[Len(code)])
    THEN rstripCode(SubSeq(code, 1, Len(code) - 1))
  ELSE code

\* code.strip()
strip(code) == lstripCode(rstripCode(code))

\* Mutant of ParseFails: only the first line is looked at, so the lines
\* before an unparseable one are run.
ParseFailsFirstLine(code) == code # <<>> /\ code[1].k = "garbage"

\* Whether ast.parse(code) raises SyntaxError.
ParseFails(code) == \E i \in 1..Len(code) : code[i].k = "garbage"

\* ast.parse(code).body: the statements, in order.
ParseBody(code) == SelectSeq(code, IsStmt)

\* Whether compile(module) raises SyntaxError.
CompileFails(body) == \E i \in 1..Len(body) : body[i].k = "Return"

\* Mutant of EndsInExpr: a final assignment counts as a value to show.
EndsInValue(body) ==
  body # <<>> /\ body[Len(body)].k \in {"Expr", "Assign"}

\* isinstance(module.body[-1], ast.Expr) for a non-empty body.
EndsInExpr(body) == body # <<>> /\ body[Len(body)].k = "Expr"

\* Lines 60-69: the final bare expression becomes _RESULT_SLOT = <expr>.
Rewrite(body) ==
  IF EndsInExpr(body)
    THEN [body EXCEPT ![Len(body)] = Assign(_RESULT_SLOT, body[Len(body)].e)]
  ELSE body

\* ---------------------------------------------------------------- namespace

\* Mutant of Bind: the binding replaces the mapping instead of joining it.
BindAlone(g, id, v) == [m \in {id} |-> v]

Bind(g, id, v) == [m \in DOMAIN g \cup {id} |-> IF m = id THEN v ELSE g[m]]

\* Mutant of Unbind: the name stays bound.
UnbindNothing(g, id) == g

Unbind(g, id) == [m \in DOMAIN g \ {id} |-> g[m]]

\* Exceptions that "except Exception" catches.
IsException(exc) == exc \notin {"SystemExit", "KeyboardInterrupt"}

\* The result of evaluating an expression or running statements:
\* exc = "" when it completed; out/err are the texts written to sys.stdout
\* and sys.stderr meanwhile.
Done(g, v, out, err) == [exc |-> "", g |-> g, v |-> v, out |-> out, err |-> err]
Raised(exc, g, out, err) ==
  [exc |-> exc, g |-> g, v |-> NoneV, out |-> out, err |-> err]

\* print(v, file=...): str(v) and a newline go to the stream named.
PrintValue(e, a) ==
  IF a.exc # "" THEN a
  ELSE IF ReprRaises(a.v) THEN Raised("ValueError", a.g, a.out, a.err)
  ELSE IF e.file = "stdout"
    THEN Done(a.g, NoneV, a.out \o str(a.v) \o <<NL>>, a.err)
  ELSE Done(a.g, NoneV, a.out, a.err \o str(a.v) \o <<NL>>)

RECURSIVE Eval(_, _)
\* The value of expression e in namespace g.
Eval(e, g) ==
  CASE e.k = "Const" -> Done(g, e.v, <<>>, <<>>)
    [] e.k = "Name" ->
         IF e.id \in DOMAIN g THEN Done(g, g[e.id], <<>>, <<>>)
         ELSE Raised("NameError", g, <<>>, <<>>)
    [] e.k = "AddOne" ->
         IF e.id \notin DOMAIN g THEN Raised("NameError", g, <<>>, <<>>)
         ELSE IF g[e.id].t # "int" THEN Raised("TypeError", g, <<>>, <<>>)
         ELSE Done(g, IntV(g[e.id].v + 1), <<>>, <<>>)
    [] e.k = "print" ->
         IF e.args = <<>>
           THEN IF e.file = "stdout" THEN Done(g, NoneV, <<NL>>, <<>>)
                ELSE Done(g, NoneV, <<>>, <<NL>>)
         ELSE PrintValue(e, Eval(e.args[1], g))

\* id = <value r>
Store(id, r) ==
  IF r.exc # "" THEN r ELSE Done(Bind(r.g, id, r.v), NoneV, r.out, r.err)

\* The value r of an expression statement or of a test is dropped.
Drop(r) == IF r.exc # "" THEN r ELSE Done(r.g, NoneV, r.out, r.err)

\* One statement run against namespace g.
ExecStmt(s, g) ==
  CASE s.k = "Assign" -> Store(s.id, Eval(s.e, g))
    [] s.k = "Del" ->
         IF s.id \in DOMAIN g THEN Done(Unbind(g, s.id), NoneV, <<>>, <<>>)
         ELSE Raised("NameError", g, <<>>, <<>>)
    [] s.k = "Expr" -> Drop(Eval(s.e, g))
    [] s.k = "If" -> Drop(Eval(s.e, g))
    [] s.k = "Raise" -> Raised(s.exc, g, <<>>, <<>>)

\* The run so far, acc, extended by the outcome r of the next statement;
\* ran counts the statements that completed.
Extend(acc, r) ==
  [exc |-> r.exc, g |-> r.g, out |-> acc.out \o r.out,
   err |-> acc.err \o r.err,
   ran |-> IF r.exc = "" THEN acc.ran + 1 ELSE acc.ran]

RECURSIVE ExecFromAll(_, _, _)
\* Mutant of ExecFrom: the statements after one that raised run as well.
ExecFromAll(body, i, acc) ==
  IF i > Len(body) THEN acc
  ELSE ExecFromAll(body, i + 1, Extend(acc, ExecStmt(body[i], acc.g)))

RECURSIVE ExecFrom(_, _, _)
\* The statements from the i-th on, in order, stopping at the first one that
\* raises.
ExecFrom(body, i, acc) ==
  IF i > Len(body) \/ acc.exc # "" THEN acc
  ELSE ExecFrom(body, i + 1, Extend(acc, ExecStmt(body[i], acc.g)))

\* exec(code_obj, self.globals, self.globals)
exec(body, g) ==
  ExecFrom(body, 1, [exc |-> "", g |-> g, out |-> <<>>, err |-> <<>>, ran |-> 0])

\* ------------------------------------------------------------------ streams

\* The process streams are named by owner and descriptor: the console's own
\* pair, and one private io.StringIO pair per call.
Stream(owner, fd) == [owner |-> owner, fd |-> fd]
Console == "console"

\* Lines 45-46: the call's buffers become the process streams.
Redirect(owner) ==
  [sys_stdout |-> Stream(owner, "out"), sys_stderr |-> Stream(owner, "err")]

\* Mutant of Restore: the console is put back, whatever was saved.
RestoreConsole(old_stdout, old_stderr) ==
  [sys_stdout |-> Stream(Console, "out"), sys_stderr |-> Stream(Console, "err")]

\* Lines 88-91: the streams saved at lines 43-44 are put back.
Restore(old_stdout, old_stderr) ==
  [sys_stdout |-> old_stdout, sys_stderr |-> old_stderr]

\* What buffer buf holds of text written to stream target.
Written(target, buf, text) == IF target = buf THEN text ELSE <<>>

\* ----------------------------------------------------------------- execute

\* Mutant of AfterExec: the captured value is taken from the slot and "_"
\* is left as it was.
AfterExecKeepsLast(capture_result, r) ==
  LET ran == [g |-> r.g, out |-> r.out, err |-> r.err, tb |-> <<>>,
              result_value |-> NoneV, escaped |-> "", ran |-> r.ran]
  IN
  IF r.exc = ""
    THEN IF capture_result /\ _RESULT_SLOT \in DOMAIN r.g
           THEN [ran EXCEPT !.result_value = r.g[_RESULT_SLOT],
                            !.g = Unbind(r.g, _RESULT_SLOT)]
         ELSE ran
  ELSE IF r.exc \notin {"SystemExit", "KeyboardInterrupt"}
    THEN [ran EXCEPT !.tb = format_exc(r.exc)]
  ELSE [ran EXCEPT !.escaped = r.exc]

\* Lines 79-87: after exec returned or raised r, the captured result is moved
\* to "_", a caught exception is formatted into the call's stderr buffer, and
\* any other exception leaves the try statement.
AfterExec(capture_result, r) ==
  LET ran == [g |-> r.g, out |-> r.out, err |-> r.err, tb |-> <<>>,
              result_value |-> NoneV, escaped |-> "", ran |-> r.ran]
  IN
  IF r.exc = ""
    THEN IF capture_result /\ _RESULT_SLOT \in DOMAIN r.g
           THEN [ran EXCEPT
                   !.result_value = r.g[_RESULT_SLOT],
                   !.g = Bind(Unbind(r.g, _RESULT_SLOT), "_",
                              r.g[_RESULT_SLOT])]
         ELSE ran
  ELSE IF IsException(r.exc)
    THEN [ran EXCEPT !.tb = format_exc(r.exc)]
  ELSE [ran EXCEPT !.escaped = r.exc]

\* Mutant of NotRun: "_" is reset when nothing ran.
NotRunResets(g, tb) ==
  [g |-> Bind(g, "_", NoneV), out |-> <<>>, err |-> <<>>, tb |-> tb,
   result_value |-> NoneV, escaped |-> "", ran |-> 0]

\* Nothing ran: the diagnostic tb is all the call produced.
NotRun(g, tb) ==
  [g |-> g, out |-> <<>>, err |-> <<>>, tb |-> tb, result_value |-> NoneV,
   escaped |-> "", ran |-> 0]

\* Lines 58-82 for a parsed module body.
RunModule(module_body, g) ==
  IF CompileFails(Rewrite(module_body))
    THEN NotRun(g, format_exc("SyntaxError"))
  ELSE AfterExec(EndsInExpr(module_body), exec(Rewrite(module_body), g))

\* Lines 48-87, up to the finally clause: parse, rewrite, compile, exec and
\* result capture against namespace g.  out/err are what the fragment wrote
\* to sys.stdout/sys.stderr, tb what the handlers wrote to the call's own
\* stderr buffer, escaped the exception that left the try statement.
TryBlock(code, g) ==
  IF ParseFails(code) THEN NotRun(g, format_exc("SyntaxError"))
  ELSE RunModule(ParseBody(code), g)

\* Mutant of Parts: the value is shown when it is true-like.
PartsTruthy(output_text, result_value, error_text) ==
  (IF output_text # <<>> THEN <<rstrip(output_text)>> ELSE <<>>)
  \o (IF result_value \notin {NoneV, IntV(0), StrV("")}
        THEN <<repr(result_value)>> ELSE <<>>)
  \o (IF error_text # <<>> THEN <<rstrip(error_text)>> ELSE <<>>)

\* Lines 98-105: the parts of the report body.
Parts(output_text, result_value, error_text) ==
  (IF output_text # <<>> THEN <<rstrip(output_text)>> ELSE <<>>)
  \o (IF result_value # NoneV THEN <<repr(result_value)>> ELSE <<>>)
  \o (IF error_text # <<>> THEN <<rstrip(error_text)>> ELSE <<>>)

\* Mutant of Compose: the label's line is ended whether or not parts follow.
ComposeLine(n, parts) == Label(n) \o <<NL>> \o join(parts)

\* Lines 107-110.
Compose(n, parts) ==
  IF parts # <<>> THEN Label(n) \o <<NL>> \o join(parts) ELSE Label(n)

\* What a call hands back to its caller.
NoCall == [kind |-> "none", text |-> <<>>, exc |-> ""]
Returns(text) == [kind |-> "return", text |-> text, exc |-> ""]
Raises(exc) == [kind |-> "raise", text |-> <<>>, exc |-> exc]

\* Lines 93-110: the report, or the exception repr() raises at line 103.
Format(n, output_text, result_value, error_text) ==
  IF result_value # NoneV /\ ReprRaises(result_value) THEN Raises("ValueError")
  ELSE Returns(Compose(n, Parts(output_text, result_value, error_text)))

\* ------------------------------------------------------------------ inputs

\* The statements fragments are built from.
Pool ==
  { Assign("x", Const(IntV(5))),
    Assign("_", Const(IntV(0))),
    Assign(_RESULT_SLOT, Const(IntV(0))),
    Del("x"),
    Expr(AddOne("x")),
    Expr(Name("_")),
    Expr(Const(IntV(0))),
    Expr(Const(BadReprV)),
    Expr(Call_print(<<Name("x")>>, "stdout")),
    Expr(Call_print(<<>>, "stdout")),
    Expr(Call_print(<<Const(IntV(0))>>, "stderr")),
    If(Call_print(<<Name("x")>>, "stdout")),
    Raise("SystemExit"),
    Return,
    Garbage }

\* The statements that change what the statements after them do or show.
Lead ==
  { Assign("x", Const(IntV(5))),
    Assign("_", Const(IntV(0))),
    Assign(_RESULT_SLOT, Const(IntV(0))),
    Del("x"),
    Expr(AddOne("x")),
    Expr(Call_print(<<Name("x")>>, "stdout")),
    Expr(Call_print(<<>>, "stdout")),
    Raise("SystemExit") }

\* The bodies of n statements: any statement last, leading ones before it.
Bodies(n) ==
  { l \o <<p>> : l \in [1..(n - 1) -> Lead], p \in Pool }

RECURSIVE Lines(_)
\* One token per line, each followed by a newline.
Lines(toks) ==
  IF toks = <<>> THEN <<>> ELSE <<toks[1], Newline>> \o Lines(Tail(toks))

BlankTexts == { <<>>, <<Space>>, <<Newline, Space>> }

\* A session of four calls: "x = 5", "x + 1", "" and "_", each text as
\* written, with no newline at its end.
ExampleCalls ==
  << <<Assign("x", Const(IntV(5)))>>,
     <<Expr(AddOne("x"))>>,
     <<>>,
     <<Expr(Name("_"))>> >>

Fragments ==
  BlankTexts \cup { <<Comment>> }
  \cup { ExampleCalls[i] : i \in DOMAIN ExampleCalls }
  \cup { Lines(b) : b \in UNION { Bodies(n) : n \in 1..MaxLen } }

\* ------------------------------------------------------------------- state

VARIABLES
  globals,          \* self.globals
  execution_count,  \* self.execution_count
  sys_stdout,       \* sys.stdout
  sys_stderr,       \* sys.stderr
  calls,            \* number of execute calls made so far
  code,             \* the argument of the latest call
  before,           \* the executor and the streams as the latest call began
  frame,            \* the latest call's local variables as it ended
  ret,              \* what the latest call handed back
  user_bound,       \* names whose binding a fragment's own statement made
  matched,          \* calls made, if they were ExampleCalls in order; else 0
  touched,          \* reserved names some fragment so far assigns or deletes
  tasks,            \* per request: the frame of its _process generator
  running,          \* the request whose generator holds the event loop
  th                \* per thread: the frame of its execute call in flight

vars == <<globals, execution_count, sys_stdout, sys_stderr, calls, code,
          before, frame, ret, user_bound, matched, touched, tasks,
          running, th>>

\* The names execute itself binds and removes (lines 21, 80-82).
Reserved == {"_", _RESULT_SLOT}

\* The observations of the latest sequential call.
seq_vars == <<calls, code, before, frame, ret, user_bound, matched, touched>>

\* The adapter's requests.
tool_vars == <<tasks, running>>

\* Threads that may call execute on the one executor at the same time.
Threads == {"A", "B"}

\* The frame of a thread that is not in a call.
Idle ==
  [pc |-> "idle", code |-> <<>>, n |-> 0,
   old_stdout |-> Stream(Console, "out"), old_stderr |-> Stream(Console, "err"),
   stdout |-> <<>>, stderr |-> <<>>, result_value |-> NoneV, escaped |-> "",
   ret |-> NoCall]

Snapshot ==
  [globals |-> globals, execution_count |-> execution_count,
   sys_stdout |-> sys_stdout, sys_stderr |-> sys_stderr,
   user_bound |-> user_bound]

\* The locals of a call that has not run anything.
NoFrame ==
  [output_text |-> <<>>, error_text |-> <<>>, result_value |-> NoneV,
   ran |-> 0]

\* Requests that may be pending on the one tool instance.
Requests == {"r1", "r2"}

\* No generator holds the event loop.
NoTask == "-"

\* An envelope: openai_harmony's Message, with the fields _process reads and
\* sets.  An absent author, recipient or channel is None.
TextContent(text) == [text |-> text]
Author(role, name) == [role |-> role, name |-> name]
Message(author, content, recipient, channel) ==
  [author |-> author, content |-> content, recipient |-> recipient,
   channel |-> channel]
NoMessage == Message(NoneV, <<>>, NoneV, NoneV)

\* The frame of a request not yet made.
NoRequest ==
  [pc |-> "none", message |-> NoMessage,
   old_stdout |-> Stream(Console, "out"), old_stderr |-> Stream(Console, "err"),
   invoked |-> 0, report |-> NoCall, yielded |-> <<>>]

\* Lines 23-29 and 115-116.
Init ==
  /\ globals = [n \in {"__name__", "__package__", "__builtins__"} |->
                  CASE n = "__name__" -> StrV("__main__")
                    [] n = "__package__" -> NoneV
                    [] OTHER -> BuiltinsV]
  /\ execution_count = 0
  /\ sys_stdout = Stream(Console, "out")
  /\ sys_stderr = Stream(Console, "err")
  /\ calls = 0
  /\ code = <<>>
  /\ user_bound = {}
  /\ matched = 0
  /\ touched = {}
  /\ before = Snapshot
  /\ frame = NoFrame
  /\ ret = NoCall
  /\ th = [t \in Threads |-> Idle]
  /\ tasks = [t \in Requests |-> NoRequest]
  /\ running = NoTask

\* Mutant of Incremented: the counter is left as it was.
NotIncremented(n) == n

\* Line 33.
Incremented(n) == n + 1

\* Lines 93-110 after the try statement gave t: the exception that escaped
\* it goes on to the caller, otherwise the report is composed.
Finish(n, t, output_text, error_text) ==
  IF t.escaped # "" THEN Raises(t.escaped)
  ELSE Format(n, output_text, t.result_value, error_text)

\* Lines 94-95: what the call's two buffers hold once the try statement gave
\* t while the process streams were those of `during`.
Buffers(t, during) ==
  [output_text |-> Written(during.sys_stdout, Stream("call", "out"), t.out),
   error_text |->
     Written(during.sys_stderr, Stream("call", "err"), t.err) \o t.tb,
   result_value |-> t.result_value,
   ran |-> t.ran]

RECURSIVE BoundBy(_, _, _)
\* The names bound by the first n statements of body, given those in acc.
BoundBy(body, n, acc) ==
  IF n = 0 THEN acc
  ELSE LET s == body[n] IN
    IF s.k = "Assign" THEN BoundBy(body, n - 1, acc) \cup {s.id}
    ELSE IF s.k = "Del" THEN BoundBy(body, n - 1, acc) \ {s.id}
    ELSE BoundBy(body, n - 1, acc)

\* Lines 80-82 rebind "_" and remove the slot: neither binding is then one a
\* fragment's statement made.
UserBound(body, t, acc) ==
  IF EndsInExpr(body) /\ t.ran = Len(body) /\ t.escaped = ""
    THEN BoundBy(body, t.ran, acc) \ {"_", _RESULT_SLOT}
  ELSE BoundBy(body, t.ran, acc)

\* Lines 31-110: one whole call of execute(c), no other call in flight.  For
\* non-blank code the streams are redirected to the call's buffers, the
\* fragment runs, and the streams saved are restored.
Execute(c) ==
  /\ ret = NoCall
  /\ calls < MaxCalls
  /\ UNCHANGED <<th, tool_vars>>
  /\ calls' = calls + 1
  /\ code' = c
  /\ matched' = IF matched = calls /\ calls < Len(ExampleCalls)
                    /\ c = ExampleCalls[calls + 1]
                 THEN calls + 1 ELSE 0
  /\ touched' = touched \cup
       { n \in Reserved :
           \E i \in 1..Len(c) : c[i].k \in {"Assign", "Del"} /\ c[i].id = n }
  /\ before' = Snapshot
  /\ execution_count' = Incremented(execution_count)
  /\ IF strip(c) = <<>>
       THEN /\ ret' = Returns(Label(execution_count'))
            /\ frame' = NoFrame
            /\ UNCHANGED <<globals, sys_stdout, sys_stderr, user_bound>>
     ELSE
       LET old_stdout == sys_stdout
           old_stderr == sys_stderr
           during == Redirect("call")
           t == TryBlock(c, globals)
           after == Restore(old_stdout, old_stderr)
       IN /\ globals' = t.g
          /\ sys_stdout' = after.sys_stdout
          /\ sys_stderr' = after.sys_stderr
          /\ frame' = Buffers(t, during)
          /\ ret' = Finish(execution_count', t, frame'.output_text,
                           frame'.error_text)
          /\ user_bound' =
               IF ParseFails(c) THEN user_bound
               ELSE UserBound(ParseBody(c), t, user_bound)

\* The caller takes the report (or the exception) and drops it: the report
\* is returned once and not kept by the executor.
Discard ==
  /\ ret # NoCall
  /\ ret' = NoCall
  /\ code' = <<>>
  /\ before' = Snapshot
  /\ frame' = NoFrame
  /\ UNCHANGED <<globals, execution_count, sys_stdout, sys_stderr, calls,
                 user_bound, matched, touched, th, tool_vars>>

\* Who may own the process streams between calls: the console, or the
\* program hosting the executor, which has put streams of its own in place.
Hosts == {Console, "host"}

\* Between calls the hosting program puts other streams in place: lines
\* 43-44 save whatever is installed when the call begins.
HostInstalls(owner) ==
  /\ ret = NoCall
  /\ sys_stdout # Stream(owner, "out")
  /\ sys_stdout' = Stream(owner, "out")
  /\ sys_stderr' = Stream(owner, "err")
  /\ before' = [before EXCEPT !.sys_stdout = sys_stdout',
                              !.sys_stderr = sys_stderr']
  /\ UNCHANGED <<globals, execution_count, calls, code, frame, ret,
                 user_bound, matched, touched, th, tool_vars>>

Next ==
  \/ \E c \in Fragments : Execute(c)
  \/ Discard
  \/ \E owner \in Hosts : HostInstalls(owner)

Spec == Init /\ [][Next]_vars

\* ----------------------------------------------------- overlapping calls
\* execute takes no lock: when threads call it on one executor, each call
\* goes through the steps below, and the steps of different calls interleave.
\* The try statement's body (lines 49-87) is taken as one step.

\* What a thread submits: nothing, a print of its own name, a bare value, or
\* an exit.
ThreadFragments(t) ==
  { <<>>,
    Lines(<<Expr(Call_print(<<Const(StrV(t))>>, "stdout"))>>),
    Lines(<<Expr(Const(IntV(0)))>>),
    Lines(<<Raise("SystemExit")>>) }

\* Line 33, first half: self.execution_count is read.
T_Load(t, c) ==
  /\ th[t].pc = "idle"
  /\ th' = [th EXCEPT ![t] = [Idle EXCEPT !.pc = "loaded", !.code = c,
                                          !.n = execution_count]]
  /\ UNCHANGED <<globals, execution_count, sys_stdout, sys_stderr, seq_vars, tool_vars>>

\* Line 33, second half: the incremented value is stored.
T_Store(t) ==
  /\ th[t].pc = "loaded"
  /\ execution_count' = Incremented(th[t].n)
  /\ th' = [th EXCEPT ![t].pc = "counted"]
  /\ UNCHANGED <<globals, sys_stdout, sys_stderr, seq_vars, tool_vars>>

\* Lines 35-36.
T_Blank(t) ==
  /\ th[t].pc = "counted"
  /\ strip(th[t].code) = <<>>
  /\ th' = [th EXCEPT ![t].pc = "done",
                      ![t].ret = Returns(Label(execution_count))]
  /\ UNCHANGED <<globals, execution_count, sys_stdout, sys_stderr, seq_vars, tool_vars>>

\* Lines 38-44: the buffers are created, the process streams are saved.
T_Save(t) ==
  /\ th[t].pc = "counted"
  /\ strip(th[t].code) # <<>>
  /\ th' = [th EXCEPT ![t].pc = "saved", ![t].old_stdout = sys_stdout,
                      ![t].old_stderr = sys_stderr]
  /\ UNCHANGED <<globals, execution_count, sys_stdout, sys_stderr, seq_vars, tool_vars>>

\* Lines 45-46.
T_Install(t) ==
  /\ th[t].pc = "saved"
  /\ sys_stdout' = Redirect(t).sys_stdout
  /\ sys_stderr' = Redirect(t).sys_stderr
  /\ th' = [th EXCEPT ![t].pc = "installed"]
  /\ UNCHANGED <<globals, execution_count, seq_vars, tool_vars>>

\* Thread u's frame after thread t's try statement gave r: what the
\* fragment printed went to the buffers that are the process streams now,
\* whosever they are; the handlers' traceback went to t's own stderr buffer.
AfterBody(t, u, r, f) ==
  [f EXCEPT
     !.stdout = @ \o Written(sys_stdout, Stream(u, "out"), r.out),
     !.stderr = @ \o Written(sys_stderr, Stream(u, "err"), r.err)
                  \o (IF u = t THEN r.tb ELSE <<>>),
     !.result_value = IF u = t THEN r.result_value ELSE @,
     !.escaped = IF u = t THEN r.escaped ELSE @,
     !.pc = IF u = t THEN "ran" ELSE @]

\* Lines 48-87.
T_Body(t) ==
  /\ th[t].pc = "installed"
  /\ globals' = TryBlock(th[t].code, globals).g
  /\ th' = [u \in Threads |->
              AfterBody(t, u, TryBlock(th[t].code, globals), th[u])]
  /\ UNCHANGED <<execution_count, sys_stdout, sys_stderr, seq_vars, tool_vars>>

\* Lines 88-91; an exception that escaped the try statement then leaves the
\* call.
T_Restore(t) ==
  /\ th[t].pc = "ran"
  /\ sys_stdout' = Restore(th[t].old_stdout, th[t].old_stderr).sys_stdout
  /\ sys_stderr' = Restore(th[t].old_stdout, th[t].old_stderr).sys_stderr
  /\ th' = IF th[t].escaped # ""
             THEN [th EXCEPT ![t].pc = "done",
                             ![t].ret = Raises(th[t].escaped)]
           ELSE [th EXCEPT ![t].pc = "restored"]
  /\ UNCHANGED <<globals, execution_count, seq_vars, tool_vars>>

\* Lines 93-110.
T_Format(t) ==
  /\ th[t].pc = "restored"
  /\ th' = [th EXCEPT ![t].pc = "done",
                      ![t].ret = Format(execution_count, th[t].stdout,
                                        th[t].result_value, th[t].stderr)]
  /\ UNCHANGED <<globals, execution_count, sys_stdout, sys_stderr, seq_vars, tool_vars>>

NextThreads ==
  \E t \in Threads :
    \/ \E c \in ThreadFragments(t) : T_Load(t, c)
    \/ T_Store(t)
    \/ T_Blank(t)
    \/ T_Save(t)
    \/ T_Install(t)
    \/ T_Body(t)
    \/ T_Restore(t)
    \/ T_Format(t)

SpecThreads == Init /\ [][NextThreads]_vars

\* -------------------------------------------------------------- adapter
\* StatefulPythonTool._process is an async generator: nothing of it runs
\* until the event loop resumes it, and it hands the loop back only where it
\* is suspended.  Its body has no await; its one yield is at line 166.

\* The texts requests carry.
ToolTexts ==
  { <<>>, <<Space>>,
    <<Assign("x", Const(IntV(5)))>>,
    <<Expr(AddOne("x"))>>,
    <<Expr(Call_print(<<Name("x")>>, "stdout"))>>,
    <<Raise("SystemExit")>> }

\* The envelopes requests are: no part, one text part, or two.
ToolMessages ==
  { Message(Author("assistant", NoneV), content, StrV("python"), channel) :
      content \in { <<>> }
        \cup { <<TextContent(c)>> : c \in ToolTexts }
        \cup { <<TextContent(c), TextContent(<<Expr(Const(IntV(0)))>>)>> :
                 c \in { <<>>, <<Expr(AddOne("x"))>> } },
      channel \in { NoneV, StrV("analysis") } }

\* bool(v) for an optional string.
Truthy(v) == v # NoneV /\ v # StrV("")

\* Line 146.
FirstText(message) ==
  IF message.content # <<>> THEN message.content[1].text ELSE <<>>

\* Mutant of NoCode: whitespace counts as no code.
NoCodeStripped(c) == strip(c) = <<>>

\* Line 148: `not code`.
NoCode(c) == c = <<>>

\* Line 149.
NoCodeText == <<"Error: No code provided">>

\* Lines 154-164.
Response(output, channel) ==
  Message(Author("tool", "python"), <<TextContent(output)>>,
          StrV("assistant"), IF Truthy(channel) THEN channel ELSE NoneV)

\* Mutant of Suspended: the generator is also suspended inside execute.
SuspendedInCall(pc) == TRUE

\* Whether a generator at pc is suspended: before it is first resumed, at
\* the yield of line 166, and once it has ended.
Suspended(pc) == pc # "executing"

\* Who holds the event loop when request t stands at pc.
Holder(t, pc) == IF Suspended(pc) THEN NoTask ELSE t

\* Lines 154-166: frame f yields the response made of output.
Yield(f, output) ==
  [f EXCEPT !.pc = "yielded",
            !.yielded = Append(@, Response(output, f.message.channel))]

\* Line 152 once execute handed back r: its report becomes the output, or
\* its exception ends the generator.
Delegated(f, r) ==
  IF r.kind = "return"
    THEN Yield([f EXCEPT !.invoked = @ + 1, !.report = r], r.text)
  ELSE [f EXCEPT !.pc = "raised", !.invoked = @ + 1, !.report = r]

\* An envelope is addressed to the tool: its generator is created, and
\* nothing of it runs yet.
P_Submit(t, m) ==
  /\ tasks[t].pc = "none"
  /\ running = NoTask
  /\ tasks' = [tasks EXCEPT ![t] = [NoRequest EXCEPT !.pc = "pending",
                                                     !.message = m]]
  /\ UNCHANGED <<globals, execution_count, sys_stdout, sys_stderr, running,
                 seq_vars, th>>

\* Lines 146-150 and 154-166 when there is no code.
P_NoCode(t) ==
  /\ tasks[t].pc = "pending"
  /\ running = Holder(t, tasks[t].pc)
  /\ NoCode(FirstText(tasks[t].message))
  /\ tasks' = [tasks EXCEPT ![t] = Yield(@, NoCodeText)]
  /\ running' = Holder(t, tasks'[t].pc)
  /\ UNCHANGED <<globals, execution_count, sys_stdout, sys_stderr, seq_vars,
                 th>>

\* Lines 146-152 with lines 33-36 of execute, and 154-166: the code is
\* blank, execute hands back the label.
P_Blank(t) ==
  /\ tasks[t].pc = "pending"
  /\ running = Holder(t, tasks[t].pc)
  /\ ~NoCode(FirstText(tasks[t].message))
  /\ strip(FirstText(tasks[t].message)) = <<>>
  /\ execution_count' = Incremented(execution_count)
  /\ tasks' = [tasks EXCEPT
                 ![t] = Delegated(@, Returns(Label(execution_count')))]
  /\ running' = Holder(t, tasks'[t].pc)
  /\ UNCHANGED <<globals, sys_stdout, sys_stderr, seq_vars, th>>

\* Lines 146-152 with lines 33-46 of execute: the streams are redirected.
P_Enter(t) ==
  /\ tasks[t].pc = "pending"
  /\ running = Holder(t, tasks[t].pc)
  /\ ~NoCode(FirstText(tasks[t].message))
  /\ strip(FirstText(tasks[t].message)) # <<>>
  /\ execution_count' = Incremented(execution_count)
  /\ sys_stdout' = Redirect(t).sys_stdout
  /\ sys_stderr' = Redirect(t).sys_stderr
  /\ tasks' = [tasks EXCEPT ![t].pc = "executing",
                            ![t].old_stdout = sys_stdout,
                            ![t].old_stderr = sys_stderr]
  /\ running' = Holder(t, tasks'[t].pc)
  /\ UNCHANGED <<globals, seq_vars, th>>

\* What execute hands back once the try statement gave r with the process
\* streams as they are.
Handed(t, r) ==
  Finish(execution_count, r,
         Written(sys_stdout, Stream(t, "out"), r.out),
         Written(sys_stderr, Stream(t, "err"), r.err) \o r.tb)

\* Lines 48-110 of execute, then lines 154-166.
P_Leave(t) ==
  /\ tasks[t].pc = "executing"
  /\ running = Holder(t, tasks[t].pc)
  /\ globals' = TryBlock(FirstText(tasks[t].message), globals).g
  /\ sys_stdout' = Restore(tasks[t].old_stdout, tasks[t].old_stderr).sys_stdout
  /\ sys_stderr' = Restore(tasks[t].old_stdout, tasks[t].old_stderr).sys_stderr
  /\ tasks' = [tasks EXCEPT
       ![t] = Delegated(@, Handed(t, TryBlock(FirstText(@.message), globals)))]
  /\ running' = Holder(t, tasks'[t].pc)
  /\ UNCHANGED <<execution_count, seq_vars, th>>

\* The consumer asks for the next response: the generator resumes after
\* line 166 and ends.
P_Close(t) ==
  /\ tasks[t].pc = "yielded"
  /\ running = Holder(t, tasks[t].pc)
  /\ tasks' = [tasks EXCEPT ![t].pc = "done"]
  /\ running' = Holder(t, tasks'[t].pc)
  /\ UNCHANGED <<globals, execution_count, sys_stdout, sys_stderr, seq_vars,
                 th>>

NextTool ==
  \E t \in Requests :
    \/ \E m \in ToolMessages : P_Submit(t, m)
    \/ P_NoCode(t)
    \/ P_Blank(t)
    \/ P_Enter(t)
    \/ P_Leave(t)
    \/ P_Close(t)

SpecTool == Init /\ [][NextTool]_vars

\* ------------------------------------------------------------ vocabulary
\* What the properties below say of the latest call, in terms of its
\* argument, the state before it and the state after it.

Called == ret # NoCall
Reported == ret.kind = "return"

\* The text is empty or whitespace only.
IsBlank(c) == \A i \in 1..Len(c) : c[i] \in {Space, Newline}

\* The text is not valid Python: some line cannot be parsed, or a statement
\* is not allowed at top level.
IsInvalid(c) == \E i \in 1..Len(c) : c[i] \in {Garbage, Return}

\* The top-level statements of a valid text.
Statements(c) == SelectSeq(c, LAMBDA tok : tok \notin {Space, Newline, Comment})

\* A valid, non-blank fragment was submitted.
Ran == Called /\ ~IsBlank(code) /\ ~IsInvalid(code)

LastStmt == Statements(code)[Len(Statements(code))]
EndsInBareExpr == Statements(code) # <<>> /\ LastStmt.k = "Expr"
EndsInOther == Statements(code) # <<>> /\ LastStmt.k # "Expr"

\* The fragment itself assigns or deletes name n.
Touches(c, n) ==
  \E i \in 1..Len(c) : c[i].k \in {"Assign", "Del"} /\ c[i].id = n

\* The statements before the k-th run to completion from the state before
\* the call, and leave this namespace.
PrefixRun(k) == exec(SubSeq(Statements(code), 1, k - 1), before.globals)

\* The fragment's final bare expression, evaluated after the statements
\* before it.
FinalEval ==
  Eval(LastStmt.e, PrefixRun(Len(Statements(code))).g)

\* The final bare expression was reached and yielded a value.
FinalCompleted ==
  /\ Ran
  /\ EndsInBareExpr
  /\ PrefixRun(Len(Statements(code))).exc = ""
  /\ FinalEval.exc = ""

\* The outcome of the k-th statement, run after the ones before it.
StmtRun(k) ==
  LET s == Statements(code)[k] IN
  IF s.k = "Expr" THEN Eval(s.e, PrefixRun(k).g) ELSE ExecStmt(s, PrefixRun(k).g)

\* Statement k is the one that raises, with an exception execute catches.
FaultAt(k) ==
  /\ PrefixRun(k).exc = ""
  /\ StmtRun(k).exc # ""
  /\ StmtRun(k).exc \notin {"SystemExit", "KeyboardInterrupt"}

EndsWith(text, suffix) ==
  /\ Len(suffix) <= Len(text)
  /\ SubSeq(text, Len(text) - Len(suffix) + 1, Len(text)) = suffix

TheLabel == <<"[Execution #", ToString(calls), "]">>

\* The error text as a report shows it: on a line of its own, trimmed.
ErrorTail ==
  IF frame.error_text = <<>> THEN <<>>
  ELSE <<NL>> \o rstrip(frame.error_text)

\* The reports that hold no value line: the label, then the captured stdout
\* and the error text, each present or not.
NoValueReports ==
  { TheLabel \o o \o e :
      o \in {<<>>, <<NL>> \o rstrip(frame.output_text)},
      e \in {<<>>, <<NL>> \o rstrip(frame.error_text)} }

\* ------------------------------------------------------------------ claims

\* C1 as stated: a name bound by a fragment's statement keeps its value
\* across every later call (here: every later call that returns a report)
\* whose fragment does not itself assign or delete it.
C1_Persistence ==
  (Called /\ Reported) =>
    \A n \in before.user_bound :
      ~Touches(code, n) => n \in DOMAIN globals /\ globals[n] = before.globals[n]

\* The final bare expression of the latest call completed, so that lines
\* 80-82 moved its value from the slot to "_".
Captured == FinalCompleted

\* C1, amended: every binding of the namespace (bootstrap names included)
\* is kept with its value by a call whose fragment does not itself assign or
\* delete the name; only "_" and the reserved slot are also changed by
\* execute, and only when the fragment's final bare expression completed.
C1_PersistenceAmended ==
  Called =>
    \A n \in DOMAIN before.globals :
      (~Touches(code, n) /\ (n \in {"_", _RESULT_SLOT} => ~Captured))
        => n \in DOMAIN globals /\ globals[n] = before.globals[n]

\* C1 witness: x, bound by an earlier fragment, is still 5 after a later call
\* that changed other bindings and did not name x.
C1_Witness ==
  /\ Called
  /\ calls >= 2
  /\ "x" \in before.user_bound
  /\ ~Touches(code, "x")
  /\ globals # before.globals
  /\ "x" \in DOMAIN globals /\ globals["x"] = IntV(5)

\* C2 as stated (for values whose repr returns): a fragment whose final bare
\* expression yields v gets a report whose value line is repr(v), and "_"
\* is v afterwards.
C2_ValueLine ==
  (FinalCompleted /\ ~ReprRaises(FinalEval.v)) =>
    /\ Reported
    /\ EndsWith(ret.text, <<NL>> \o repr(FinalEval.v) \o ErrorTail)
    /\ "_" \in DOMAIN globals /\ globals["_"] = FinalEval.v

\* C2, amended: "_" is v after the call whatever v is; a report returned
\* has the value line repr(v) when v is not None, and no value line when v
\* is None.
C2_ValueLineAmended ==
  FinalCompleted =>
    /\ "_" \in DOMAIN globals /\ globals["_"] = FinalEval.v
    /\ (Reported /\ FinalEval.v # NoneV) =>
         EndsWith(ret.text, <<NL>> \o repr(FinalEval.v) \o ErrorTail)
    /\ FinalEval.v = NoneV => Reported /\ ret.text \in NoValueReports

\* C2 witness: "x = 5" then "x + 1" in one fragment, on a namespace without
\* x: the report shows 6 and "_" is 6.
C2_Witness ==
  /\ FinalCompleted
  /\ Len(Statements(code)) = 2
  /\ "x" \notin DOMAIN before.globals
  /\ FinalEval.v = IntV(6)
  /\ Reported
  /\ globals["_"] = IntV(6)

\* C3: the counter is the number of calls made, each call raised it by
\* exactly one, and a report's label carries the number of its call.
C3_Counter ==
  /\ execution_count = calls
  /\ Called =>
       /\ execution_count = before.execution_count + 1
       /\ Reported => SubSeq(ret.text, 1, 3) = TheLabel

\* C3 witness: the third call is blank and is labelled 3.
C3_Witness ==
  /\ Called
  /\ calls = 3
  /\ IsBlank(code)
  /\ ret.text = <<"[Execution #", "3", "]">>

\* C4 as stated: every call returns a report, never an exception.
C4_AlwaysReports == Called => Reported

C6_SyntaxFault ==
  (Called /\ ~IsBlank(code) /\ IsInvalid(code)) =>
    /\ globals = before.globals
    /\ frame.result_value = NoneV
    /\ ret = Returns(TheLabel \o
                     <<NL, "Traceback (most recent call last):", NL,
                       "SyntaxError">>)

\* C6 witness: a valid assignment to x on the line before an unparseable
\* one did not run.
C6_Witness ==
  /\ Called
  /\ Len(code) = 4
  /\ code[1] = Assign("x", Const(IntV(5)))
  /\ code[3] = Garbage
  /\ "x" \notin DOMAIN globals
  /\ Reported

\* C7: a call with empty or whitespace-only text returns exactly the label
\* and leaves the namespace, "_" included, and the process streams as they
\* were.
C7_BlankCall ==
  (Called /\ IsBlank(code)) =>
    /\ ret = Returns(TheLabel)
    /\ globals = before.globals
    /\ sys_stdout = before.sys_stdout
    /\ sys_stderr = before.sys_stderr
    /\ execution_count = before.execution_count + 1

\* C7 witness: a whitespace-only call on a namespace that holds x and "_".
C7_Witness ==
  /\ Called
  /\ code = <<Newline, Space>>
  /\ {"x", "_"} \subseteq DOMAIN globals
  /\ ret = Returns(TheLabel)

\* C8: a fragment whose final statement is not a bare expression has no
\* result value, and its report is the label with captured stdout and/or
\* error text only.
C8_NoValueLine ==
  (Ran /\ EndsInOther /\ Reported) =>
    /\ frame.result_value = NoneV
    /\ ret.text \in NoValueReports

\* C8 witness: the fragment ends in "if print(x): pass"; the expression it
\* evaluated printed 5 and the report has no value line.
C8_Witness ==
  /\ Ran
  /\ EndsInOther
  /\ LastStmt.k = "If"
  /\ frame.output_text = <<"5", NL>>
  /\ ret = Returns(TheLabel \o <<NL, "5">>)

\* The report the composition rule of C10 gives: each part is present when
\* something is left of it after trimming (for the value: when it is not
\* None), and is preceded by one newline.
ClaimedReport ==
  TheLabel
  \o (IF rstrip(frame.output_text) # <<>>
        THEN <<NL>> \o rstrip(frame.output_text) ELSE <<>>)
  \o (IF frame.result_value # NoneV
        THEN <<NL>> \o repr(frame.result_value) ELSE <<>>)
  \o (IF rstrip(frame.error_text) # <<>>
        THEN <<NL>> \o rstrip(frame.error_text) ELSE <<>>)

\* C10 as stated: every report is composed by that rule; with no part
\* present it is the label alone, with no trailing newline.
C10_Composition == (Called /\ Reported) => ret.text = ClaimedReport

\* C9 as stated: when calls overlap, what one thread's fragment printed is
\* in no other thread's report.
C9_NoCrossCapture ==
  \A t \in Threads : \A u \in Threads \ {t} :
    th[t].ret.kind = "return" =>
      \A i \in 1..Len(th[t].ret.text) : th[t].ret.text[i] # u

\* C11: on a fresh executor the calls execute("x = 5"), execute("x + 1"),
\* execute("") and execute("_") return "[Execution #1]", "[Execution #2]\n6",
\* "[Execution #3]" and "[Execution #4]\n6", in that order.
ExampleReports ==
  << <<"[Execution #", "1", "]">>,
     <<"[Execution #", "2", "]", "\n", "6">>,
     <<"[Execution #", "3", "]">>,
     <<"[Execution #", "4", "]", "\n", "6">> >>

C11_Example ==
  (Called /\ matched = calls) => ret = Returns(ExampleReports[calls])

C11_Witness ==
  /\ Called /\ matched = 4 /\ calls = 4
  /\ code = <<Expr(Name("_"))>>
  /\ ret = Returns(ExampleReports[4])

\* ----------------------------------------------------- adapter properties

\* The request has no content part, or its first part's text is empty.
NoText(m) == m.content = <<>> \/ m.content[1].text = <<>>

\* Request t was resumed and its generator yielded.
Answered(t) == tasks[t].pc \in {"yielded", "done"}

\* The text of the response request t yielded.
ResponseText(t) == tasks[t].yielded[1].content[1].text

\* C12: a request with no content part or an empty first text is answered
\* "Error: No code provided" without execute being invoked, the counter and
\* the Environment staying as they were; for any other text, whitespace
\* included, execute is invoked exactly once and the response's text is its
\* report.
C12_Answers ==
  \A t \in Requests :
    /\ (Answered(t) /\ NoText(tasks[t].message)) =>
         /\ ResponseText(t) = <<"Error: No code provided">>
         /\ tasks[t].invoked = 0
    /\ (Answered(t) /\ ~NoText(tasks[t].message)) =>
         /\ tasks[t].invoked = 1
         /\ tasks[t].report.kind = "return"
         /\ ResponseText(t) = tasks[t].report.text
    /\ tasks[t].pc \in {"executing", "raised"} => ~NoText(tasks[t].message)
    /\ tasks[t].pc = "raised" => tasks[t].invoked = 1

C12_Step ==
  \A t \in Requests :
    (tasks[t].pc = "pending" /\ tasks'[t].pc # "pending") =>
      IF NoText(tasks[t].message)
        THEN /\ tasks'[t].pc = "yielded"
             /\ globals' = globals
             /\ execution_count' = execution_count
             /\ sys_stdout' = sys_stdout /\ sys_stderr' = sys_stderr
      ELSE execution_count' = execution_count + 1

C12_ShortCircuit == []C12_Answers /\ [][C12_Step]_vars

C12_Witness ==
  /\ tasks["r1"].pc = "yielded"
  /\ tasks["r1"].message.content = <<TextContent(<<>>), TextContent(<<Expr(Const(IntV(0)))>>)>>
  /\ ResponseText("r1") = <<"Error: No code provided">>
  /\ tasks["r2"].pc = "yielded"
  /\ tasks["r2"].message.content = <<TextContent(<<Space>>)>>
  /\ ResponseText("r2") = <<"[Execution #", "1", "]">>
  /\ execution_count = 1

\* C13: every request resumed yields exactly one response, authored by the
\* tool role under the name "python" and addressed to "assistant"; the
\* response carries a channel if and only if the request carried one, and
\* then the same one.
C13_OneResponse ==
  \A t \in Requests :
    tasks[t].pc \in {"yielded", "done", "raised"} =>
      /\ Len(tasks[t].yielded) = 1
      /\ tasks[t].yielded[1].author = [role |-> "tool", name |-> "python"]
      /\ tasks[t].yielded[1].recipient = StrV("assistant")
      /\ tasks[t].yielded[1].channel = tasks[t].message.channel

\* C14: when no fragment submitted so far assigns "_" itself, a call whose
\* final bare expression evaluates to None leaves "_" holding the value
\* other than None it held before (a value whose repr returns).
C14_LastValue ==
  ( /\ FinalCompleted
    /\ FinalEval.v = NoneV
    /\ "_" \notin touched
    /\ "_" \in DOMAIN before.globals
    /\ before.globals["_"] # NoneV
    /\ ~ReprRaises(before.globals["_"]) )
  => ("_" \in DOMAIN globals /\ globals["_"] = before.globals["_"])

\* C15: after every call of a sequence, whether its fragment completed,
\* failed to parse, raised a fault that was caught or one that was not, the
\* process stdout and stderr are the streams that were installed as the call
\* began; no call's buffer is installed between calls.
C15_StreamsRestored ==
  /\ Called => (sys_stdout = before.sys_stdout /\ sys_stderr = before.sys_stderr)
  /\ sys_stdout.owner \in {"console", "host"}
  /\ sys_stderr.owner \in {"console", "host"}

C15_Witness ==
  /\ Called
  /\ ret.kind = "raise"
  /\ code = <<Raise("SystemExit"), Newline>>
  /\ before.sys_stdout = Stream("host", "out")
  /\ sys_stdout = Stream("host", "out")
  /\ sys_stderr = Stream("host", "err")

\* C16: when no fragment submitted so far names the reserved slot, the slot
\* is not bound in the Environment after any call, whatever the call's
\* outcome, so that no later call can observe it.
C16_SlotUnbound ==
  _RESULT_SLOT \notin touched => _RESULT_SLOT \notin DOMAIN globals

C16_Witness ==
  /\ FinalCompleted
  /\ Reported
  /\ _RESULT_SLOT \notin touched
  /\ _RESULT_SLOT \notin DOMAIN globals
  /\ "_" \in DOMAIN globals
  /\ "_" \notin DOMAIN before.globals

\* The reports that hold a value line showing v: the label, the captured
\* stdout or not, the line repr(v), the error text or not.
ValueReports(v) ==
  { TheLabel \o o \o <<NL>> \o repr(v) \o e :
      o \in {<<>>, <<NL>> \o rstrip(frame.output_text)},
      e \in {<<>>, <<NL>> \o rstrip(frame.error_text)} }

\* C17: a report holds a value line if and only if the fragment's final
\* statement was a bare expression that completed with a value other than
\* None; 0, a false-like value, is shown, None is not.
C17_ValueLineIff ==
  (Called /\ Reported) =>
    IF FinalCompleted /\ FinalEval.v # NoneV
      THEN /\ ret.text \in ValueReports(FinalEval.v)
           /\ ret.text \notin NoValueReports
    ELSE ret.text \in NoValueReports

C17_Witness ==
  /\ FinalCompleted
  /\ FinalEval.v = IntV(0)
  /\ "_" \notin DOMAIN before.globals
  /\ ret = Returns(TheLabel \o <<NL, "0">>)

\* C17, the other way: "print()" as the final expression completes with
\* None and the report holds no value line.
C17_WitnessNone ==
  /\ FinalCompleted
  /\ FinalEval.v = NoneV
  /\ Reported
  /\ ret.text \in NoValueReports

\* C18: a call whose final bare expression did not complete (the text is
\* blank, does not parse, ends in another kind of statement, or faults
\* before the final expression yields a value) leaves "_" bound or unbound
\* exactly as it was, unless its fragment assigns or deletes "_" itself.
C18_LastValueFrame ==
  (Called /\ ~FinalCompleted /\ ~Touches(code, "_")) =>
    /\ ("_" \in DOMAIN globals) = ("_" \in DOMAIN before.globals)
    /\ "_" \in DOMAIN globals => globals["_"] = before.globals["_"]

C18_Witness ==
  /\ Ran
  /\ EndsInBareExpr
  /\ ~FinalCompleted
  /\ ~Touches(code, "_")
  /\ frame.ran = 1
  /\ "x" \in DOMAIN before.globals
  /\ "x" \notin DOMAIN globals
  /\ "_" \in DOMAIN before.globals
  /\ before.globals["_"] = IntV(6)
  /\ globals["_"] = IntV(6)

\* The requests whose execute call is in flight: the streams are redirected
\* and not yet restored.
InFlight == { t \in Requests : tasks[t].pc = "executing" }

\* C19: with the requests' generators resumed one at a time by one event
\* loop, in any order, at most one execute call is in flight on the tool's
\* Environment: while a request's call runs, from redirect to restore, the
\* process streams are its own buffers and the streams it saved are not
\* another request's.
C19_OneInFlight ==
  /\ Cardinality(InFlight) <= 1
  /\ \A t \in InFlight :
       /\ sys_stdout = Stream(t, "out") /\ sys_stderr = Stream(t, "err")
       /\ tasks[t].old_stdout.owner \notin Requests
       /\ tasks[t].old_stderr.owner \notin Requests
  /\ InFlight = {} => sys_stdout.owner \notin Requests

C19_Witness ==
  /\ InFlight = {"r2"}
  /\ tasks["r1"].pc = "pending"
  /\ ~NoText(tasks["r1"].message)
  /\ tasks["r1"].message.content[1].text # <<Space>>
  /\ execution_count = 1

\* C20: when calls from different threads overlap, once every call in
\* flight has returned the process stdout and stderr are the streams that
\* were installed before the calls; no call's buffer stays installed.
C20_StreamsAfterOverlap ==
  (\A t \in Threads : th[t].pc \in {"idle", "done"}) =>
    /\ sys_stdout = Stream(Console, "out")
    /\ sys_stderr = Stream(Console, "err")

====
